---- MODULE Spec2Model ----
(***************************************************************************)
(* Hours-of-Service planning engine (backend/trips/hos_engine.py).         *)
(*                                                                         *)
(* compute_plan is modelled as a state machine: one state per iteration of *)
(* the _drive_leg loop and per stop insertion, then the tail fill and the  *)
(* computation of the returned record.  Minutes are integers as in the     *)
(* code.  Miles are floats in the code; here they are fixed-point numbers  *)
(* counted in 1/MilesScale of a mile, every product being rounded to the   *)
(* nearest unit.  cycle_used_hours is counted in hundredths of an hour.    *)
(***************************************************************************)
EXTENDS Integers, Sequences, FiniteSets

\* ---- Rule constants (hos_engine.py lines 24-35)
DRIVE_LIMIT == 660
WINDOW_LIMIT == 840
BREAK_TRIGGER == 480
BREAK_DURATION == 30
OFF_DUTY_RESET == 600
CYCLE_LIMIT == 4200
FUEL_INTERVAL_MILES == 1000
FUEL_DURATION == 30
PICKUP_DURATION == 60
DROPOFF_DURATION == 60
AVG_SPEED_MPH == 55
MINUTES_IN_DAY == 1440

\* ---- Bounds of the model: the inputs compute_plan is called with
MilesScale == 100
HoursScale == 100
DriveStep == 325
MaxDriveSteps == 9
MileStep == 1000
MaxMileSteps == 5
CycleStep == 1750
MaxCycleSteps == 4
FloatSlack == 1
LegMinutesA == 0
LegMinutesB == 1013
LegMilesA == 400
LegMilesB == 907
StartDay == 0
CycleFractionA == 51
CycleFractionB == 6998
ShortMiles == 999

\* An optional argument: None, or the value in a one-element sequence
NoneVal == <<>>
Some(v) == <<v>>

Max(a, b) == IF a >= b THEN a ELSE b
Min(a, b) == IF a <= b THEN a ELSE b

\* Nearest integer to n / d, for d > 0 (a float product or quotient kept in
\* fixed point)
RoundDiv(n, d) == (2 * n + d) \div (2 * d)

\* args, state, pc, remaining_miles, remaining_minutes, result: the call in
\* progress.  clock: the day date.today() returns.  previous: what an earlier
\* call with the same arguments returned.  request: the POST /plan request that
\* create_plan is answering, NoRequest when compute_plan is called directly.
VARIABLES args, state, pc, remaining_miles, remaining_minutes, result, clock, previous,
          request

vars == <<args, state, pc, remaining_miles, remaining_minutes, result, clock, previous,
         request>>

caller == <<args, clock, previous, request>>

\* ---- Enumerations
OFF_DUTY == "OFF_DUTY"
SLEEPER == "SLEEPER"
DRIVING == "DRIVING"
ON_DUTY_NOT_DRIVING == "ON_DUTY_NOT_DRIVING"

FUEL == "FUEL"
BREAK_30 == "BREAK_30"
OFF_DUTY_10 == "OFF_DUTY_10"
PICKUP == "PICKUP"
DROPOFF == "DROPOFF"

\* ---- Data classes
TimelineEvent(start, end, status, label, miles) ==
  [start |-> start, end |-> end, status |-> status, label |-> label, miles |-> miles]

StopEvent(kind, global_minute, duration, label) ==
  [kind |-> kind, global_minute |-> global_minute, duration |-> duration, label |-> label]

\* Faulty variant: the used cycle minutes also open the 14-hour window
DriverStateWindowFromCycle(cycle_minutes) ==
  [global_minute |-> 0, drive_minutes |-> 0, on_duty_minutes |-> cycle_minutes,
   cumulative_drive |-> 0, cycle_minutes |-> cycle_minutes,
   miles_since_fuel |-> 0, timeline |-> <<>>, stops |-> <<>>]
DriverState(cycle_minutes) ==
  [global_minute |-> 0, drive_minutes |-> 0, on_duty_minutes |-> 0,
   cumulative_drive |-> 0, cycle_minutes |-> cycle_minutes,
   miles_since_fuel |-> 0, timeline |-> <<>>, stops |-> <<>>]

\* ---- compute_plan, lines 127-129: start_date defaults to date.today()
StartDate(a, today) == IF a.start_date = NoneVal THEN today ELSE a.start_date[1]

\* ---- compute_plan, lines 131-148: the initial cycle and the two legs
\* int(cycle_used_hours * 60): truncation of a non-negative product
InitialCycleMinutes(cycle_used_hours) == (cycle_used_hours * 60) \div HoursScale

Leg1Overridden(a) == a.leg1_miles # NoneVal /\ a.leg1_minutes # NoneVal
Leg2Overridden(a) == a.leg2_miles # NoneVal /\ a.leg2_minutes # NoneVal

\* total_miles * 0.30 and int(total_drive_minutes * 0.30)
Leg1Miles(a) ==
  IF Leg1Overridden(a) THEN a.leg1_miles[1] ELSE RoundDiv(a.total_miles * 3, 10)
Leg1Minutes(a) ==
  IF Leg1Overridden(a) THEN a.leg1_minutes[1] ELSE (a.total_drive_minutes * 3) \div 10
\* Faulty variant: leg 2 defaults to 70% of total_miles whatever leg 1 is
Leg2MilesSeventy(a) ==
  IF Leg2Overridden(a) THEN a.leg2_miles[1] ELSE RoundDiv(a.total_miles * 7, 10)
Leg2Miles(a) ==
  IF Leg2Overridden(a) THEN a.leg2_miles[1] ELSE a.total_miles - Leg1Miles(a)
\* Faulty variant: leg 2 defaults to the whole total_drive_minutes
Leg2MinutesWhole(a) ==
  IF Leg2Overridden(a) THEN a.leg2_minutes[1] ELSE a.total_drive_minutes
Leg2Minutes(a) ==
  IF Leg2Overridden(a) THEN a.leg2_minutes[1] ELSE a.total_drive_minutes - Leg1Minutes(a)

\* ---- Stop inserters
\* Faulty variant: the break does not count toward the 14-hour window
InsertBreakOffWindow(st, label) ==
  [st EXCEPT
     !.stops = Append(@, StopEvent(BREAK_30, st.global_minute, BREAK_DURATION,
                                   <<"30-min break", label>>)),
     !.timeline = Append(@, TimelineEvent(st.global_minute, st.global_minute + BREAK_DURATION,
                                          OFF_DUTY, "30-min break", 0)),
     !.global_minute = @ + BREAK_DURATION,
     !.cumulative_drive = 0]
\* Faulty variant: the break is charged to the 70-hour cycle as well
InsertBreakOnCycle(st, label) ==
  [st EXCEPT
     !.stops = Append(@, StopEvent(BREAK_30, st.global_minute, BREAK_DURATION,
                                   <<"30-min break", label>>)),
     !.timeline = Append(@, TimelineEvent(st.global_minute, st.global_minute + BREAK_DURATION,
                                          OFF_DUTY, "30-min break", 0)),
     !.global_minute = @ + BREAK_DURATION,
     !.on_duty_minutes = @ + BREAK_DURATION,
     !.cumulative_drive = 0,
     !.cycle_minutes = @ + BREAK_DURATION]
InsertBreak(st, label) ==
  [st EXCEPT
     !.stops = Append(@, StopEvent(BREAK_30, st.global_minute, BREAK_DURATION,
                                   <<"30-min break", label>>)),
     !.timeline = Append(@, TimelineEvent(st.global_minute, st.global_minute + BREAK_DURATION,
                                          OFF_DUTY, "30-min break", 0)),
     !.global_minute = @ + BREAK_DURATION,
     !.on_duty_minutes = @ + BREAK_DURATION,
     !.cumulative_drive = 0]

\* Faulty variant: the reset also restarts the 70-hour cycle
InsertResetRestartsCycle(st) ==
  [st EXCEPT
     !.stops = Append(@, StopEvent(OFF_DUTY_10, st.global_minute, OFF_DUTY_RESET,
                                   "10-hour off-duty reset")),
     !.timeline = Append(@, TimelineEvent(st.global_minute, st.global_minute + OFF_DUTY_RESET,
                                          SLEEPER, "10-hour sleeper berth reset", 0)),
     !.global_minute = @ + OFF_DUTY_RESET,
     !.drive_minutes = 0,
     !.on_duty_minutes = 0,
     !.cumulative_drive = 0,
     !.cycle_minutes = 0]
InsertReset(st) ==
  [st EXCEPT
     !.stops = Append(@, StopEvent(OFF_DUTY_10, st.global_minute, OFF_DUTY_RESET,
                                   "10-hour off-duty reset")),
     !.timeline = Append(@, TimelineEvent(st.global_minute, st.global_minute + OFF_DUTY_RESET,
                                          SLEEPER, "10-hour sleeper berth reset", 0)),
     !.global_minute = @ + OFF_DUTY_RESET,
     !.drive_minutes = 0,
     !.on_duty_minutes = 0,
     !.cumulative_drive = 0]

\* Faulty variant: the fuel stop does not advance global_minute
InsertFuelStopNoAdvance(st, label) ==
  [st EXCEPT
     !.stops = Append(@, StopEvent(FUEL, st.global_minute, FUEL_DURATION,
                                   <<"Fuel stop", label>>)),
     !.timeline = Append(@, TimelineEvent(st.global_minute, st.global_minute + FUEL_DURATION,
                                          ON_DUTY_NOT_DRIVING, "Fuel stop", 0)),
     !.on_duty_minutes = @ + FUEL_DURATION,
     !.cycle_minutes = @ + FUEL_DURATION,
     !.miles_since_fuel = 0]
\* Faulty variant: the 30 minutes at the pump also count as the 30-minute break
InsertFuelStopClearsBreak(st, label) ==
  [st EXCEPT
     !.stops = Append(@, StopEvent(FUEL, st.global_minute, FUEL_DURATION,
                                   <<"Fuel stop", label>>)),
     !.timeline = Append(@, TimelineEvent(st.global_minute, st.global_minute + FUEL_DURATION,
                                          ON_DUTY_NOT_DRIVING, "Fuel stop", 0)),
     !.global_minute = @ + FUEL_DURATION,
     !.on_duty_minutes = @ + FUEL_DURATION,
     !.cumulative_drive = 0,
     !.cycle_minutes = @ + FUEL_DURATION,
     !.miles_since_fuel = 0]
InsertFuelStop(st, label) ==
  [st EXCEPT
     !.stops = Append(@, StopEvent(FUEL, st.global_minute, FUEL_DURATION,
                                   <<"Fuel stop", label>>)),
     !.timeline = Append(@, TimelineEvent(st.global_minute, st.global_minute + FUEL_DURATION,
                                          ON_DUTY_NOT_DRIVING, "Fuel stop", 0)),
     !.global_minute = @ + FUEL_DURATION,
     !.on_duty_minutes = @ + FUEL_DURATION,
     !.cycle_minutes = @ + FUEL_DURATION,
     !.miles_since_fuel = 0]

\* Faulty variant: no reset before the stop once the 70-hour cycle is used up
OnDutyStopNeedsResetUnlessCycleOut(st, duration) ==
  WINDOW_LIMIT - st.on_duty_minutes < duration /\ st.cycle_minutes < CYCLE_LIMIT
\* Faulty variant: the stop is checked against the 8-hour trigger instead of
\* the 14-hour window
OnDutyStopNeedsResetEightHours(st, duration) == BREAK_TRIGGER - st.on_duty_minutes < duration
OnDutyStopNeedsReset(st, duration) == WINDOW_LIMIT - st.on_duty_minutes < duration

\* Faulty variant: the stop's minutes are not charged to the 14-hour window
InsertOnDutyStopOffWindow(st, duration, kind, label) ==
  LET s1 == IF OnDutyStopNeedsReset(st, duration) THEN InsertReset(st) ELSE st
  IN [s1 EXCEPT
        !.stops = Append(@, StopEvent(kind, s1.global_minute, duration, label)),
        !.timeline = Append(@, TimelineEvent(s1.global_minute, s1.global_minute + duration,
                                             ON_DUTY_NOT_DRIVING, label, 0)),
        !.global_minute = @ + duration,
        !.cycle_minutes = @ + duration]
\* Faulty variant: the on-duty stop also zeroes cumulative_drive
InsertOnDutyStopResetsDrive(st, duration, kind, label) ==
  LET s1 == IF OnDutyStopNeedsReset(st, duration) THEN InsertReset(st) ELSE st
  IN [s1 EXCEPT
        !.stops = Append(@, StopEvent(kind, s1.global_minute, duration, label)),
        !.timeline = Append(@, TimelineEvent(s1.global_minute, s1.global_minute + duration,
                                             ON_DUTY_NOT_DRIVING, label, 0)),
        !.global_minute = @ + duration,
        !.on_duty_minutes = @ + duration,
        !.cumulative_drive = 0,
        !.cycle_minutes = @ + duration]
\* Faulty variant: the StopEvent carries the minute read before the reset
InsertOnDutyStopStaleMinute(st, duration, kind, label) ==
  LET s1 == IF OnDutyStopNeedsReset(st, duration) THEN InsertReset(st) ELSE st
  IN [s1 EXCEPT
        !.stops = Append(@, StopEvent(kind, st.global_minute, duration, label)),
        !.timeline = Append(@, TimelineEvent(s1.global_minute, s1.global_minute + duration,
                                             ON_DUTY_NOT_DRIVING, label, 0)),
        !.global_minute = @ + duration,
        !.on_duty_minutes = @ + duration,
        !.cycle_minutes = @ + duration]
InsertOnDutyStop(st, duration, kind, label) ==
  LET s1 == IF OnDutyStopNeedsReset(st, duration) THEN InsertReset(st) ELSE st
  IN [s1 EXCEPT
        !.stops = Append(@, StopEvent(kind, s1.global_minute, duration, label)),
        !.timeline = Append(@, TimelineEvent(s1.global_minute, s1.global_minute + duration,
                                             ON_DUTY_NOT_DRIVING, label, 0)),
        !.global_minute = @ + duration,
        !.on_duty_minutes = @ + duration,
        !.cycle_minutes = @ + duration]

\* ---- _drive_leg: the limits read at the top of an iteration
CycleRemaining(st) == Max(0, CYCLE_LIMIT - st.cycle_minutes)
WindowRemaining(st) == Max(0, WINDOW_LIMIT - st.on_duty_minutes)
DriveRemaining(st) == Max(0, DRIVE_LIMIT - st.drive_minutes)

\* Faulty variant: the cycle counts as exhausted only once it is exceeded
CycleExhaustedStrict(st) == CYCLE_LIMIT - st.cycle_minutes < 0
CycleExhausted(st) == CycleRemaining(st) <= 0
\* Faulty variant: the reset check forgets the 11-hour drive limit
ResetNeededWindowOnly(st) == WindowRemaining(st) <= 0
ResetNeeded(st) == WindowRemaining(st) <= 0 \/ DriveRemaining(st) <= 0
BreakNeeded(st) == st.cumulative_drive >= BREAK_TRIGGER

\* state.miles_since_fuel >= FUEL_INTERVAL_MILES, a comparison of floats: the
\* float within FloatSlack units of the fixed-point value may fall on either
\* side, so either outcome is taken there (e in -FloatSlack..FloatSlack)
FuelNeeded(st, e) == st.miles_since_fuel + e >= FUEL_INTERVAL_MILES * MilesScale

\* Faulty variant: the chunk is not cut where the 8-hour break falls due
LimitChunkNoBreakTrigger(st, rmin) ==
  Min(rmin, Min(DriveRemaining(st), Min(WindowRemaining(st), CycleRemaining(st))))
\* Faulty variant: the chunk is not cut at the end of the 14-hour window
LimitChunkNoWindow(st, rmin) ==
  Min(rmin, Min(DriveRemaining(st), Min(CycleRemaining(st), BREAK_TRIGGER - st.cumulative_drive)))
\* min(remaining_minutes, drive_remaining, window_remaining, cycle_remaining,
\*     BREAK_TRIGGER - cumulative_drive)
LimitChunk(st, rmin) ==
  Min(rmin, Min(DriveRemaining(st), Min(WindowRemaining(st),
      Min(CycleRemaining(st), BREAK_TRIGGER - st.cumulative_drive))))

\* int(x): truncation toward zero of n / d, d > 0
Trunc(n, d) == IF n >= 0 THEN n \div d ELSE -((-n) \div d)

\* Faulty variant: the chunk is not cut at the fuel interval
MinutesUntilFuelIgnored(st, rmin, rmiles, max_drive, e) == max_drive
\* int(miles_until_fuel / max(speed, 1) * 60) if speed > 0 else max_drive, with
\* speed = remaining_miles / remaining_minutes * 60 in mph (AVG_SPEED_MPH when
\* no minutes remain).  e is the float's deviation from the fixed-point
\* miles_until_fuel, which decides the truncation next to a whole minute.
MinutesUntilFuel(st, rmin, rmiles, max_drive, e) ==
  LET miles_until_fuel == FUEL_INTERVAL_MILES * MilesScale - st.miles_since_fuel + e
  IN IF rmin > 0
     THEN IF rmiles > 0
          THEN IF rmiles * 60 >= rmin * MilesScale
               THEN Trunc(miles_until_fuel * rmin, rmiles)
               ELSE Trunc(miles_until_fuel * 60, MilesScale)
          ELSE max_drive
     ELSE Trunc(miles_until_fuel * 60, AVG_SPEED_MPH * MilesScale)

\* Faulty variant: the chunk is not forced up to one minute
MaxDriveNoFloor(st, rmin, rmiles, e) ==
  Min(LimitChunk(st, rmin), MinutesUntilFuel(st, rmin, rmiles, LimitChunk(st, rmin), e))
MaxDrive(st, rmin, rmiles, e) ==
  LET m0 == LimitChunk(st, rmin)
      m1 == Min(m0, Max(1, MinutesUntilFuel(st, rmin, rmiles, m0, e)))
  IN IF m1 <= 0 THEN 1 ELSE m1

\* (max_drive / max(remaining_minutes, 1)) * remaining_miles
ChunkMiles(max_drive, rmin, rmiles) == RoundDiv(max_drive * rmiles, Max(rmin, 1))

\* Faulty variant: the chunk's miles are not added to miles_since_fuel
DriveChunkNoOdometer(st, max_drive, chunk_miles, label) ==
  [st EXCEPT
     !.timeline = Append(@, TimelineEvent(st.global_minute, st.global_minute + max_drive,
                                          DRIVING, label, chunk_miles)),
     !.global_minute = @ + max_drive,
     !.drive_minutes = @ + max_drive,
     !.on_duty_minutes = @ + max_drive,
     !.cumulative_drive = @ + max_drive,
     !.cycle_minutes = @ + max_drive]
\* Faulty variant: driving is not charged to the 70-hour cycle
DriveChunkNoCycle(st, max_drive, chunk_miles, label) ==
  [st EXCEPT
     !.timeline = Append(@, TimelineEvent(st.global_minute, st.global_minute + max_drive,
                                          DRIVING, label, chunk_miles)),
     !.global_minute = @ + max_drive,
     !.drive_minutes = @ + max_drive,
     !.on_duty_minutes = @ + max_drive,
     !.cumulative_drive = @ + max_drive,
     !.miles_since_fuel = @ + chunk_miles]
DriveChunk(st, max_drive, chunk_miles, label) ==
  [st EXCEPT
     !.timeline = Append(@, TimelineEvent(st.global_minute, st.global_minute + max_drive,
                                          DRIVING, label, chunk_miles)),
     !.global_minute = @ + max_drive,
     !.drive_minutes = @ + max_drive,
     !.on_duty_minutes = @ + max_drive,
     !.cumulative_drive = @ + max_drive,
     !.cycle_minutes = @ + max_drive,
     !.miles_since_fuel = @ + chunk_miles]

\* ---- compute_plan, lines 163-175: the tail fill
\* Faulty variant: no tail fill
TailFillNone(st) == st
\* Faulty variant: the filler is appended also at a day's end, a whole day long
TailFillFullDay(st) ==
  LET day_minute == st.global_minute % MINUTES_IN_DAY
      remaining == MINUTES_IN_DAY - day_minute
  IN [st EXCEPT
        !.timeline = Append(@, TimelineEvent(st.global_minute, st.global_minute + remaining,
                                             OFF_DUTY, "Off Duty", 0)),
        !.global_minute = @ + remaining]
TailFill(st) ==
  LET day_minute == st.global_minute % MINUTES_IN_DAY
      remaining == MINUTES_IN_DAY - day_minute
  IN IF day_minute > 0
     THEN [st EXCEPT
             !.timeline = Append(@, TimelineEvent(st.global_minute, st.global_minute + remaining,
                                                  OFF_DUTY, "Off Duty", 0)),
             !.global_minute = @ + remaining]
     ELSE st

\* ---- compute_plan, lines 177-187: completion and planned fuel stops
RECURSIVE SumDriving(_, _)
SumDriving(timeline, n) ==
  IF n = 0 THEN 0
  ELSE SumDriving(timeline, n - 1)
       + (IF timeline[n].status = DRIVING THEN timeline[n].end - timeline[n].start ELSE 0)

ActualDrivenMinutes(timeline) == SumDriving(timeline, Len(timeline))

\* Faulty variant: the difference is not clamped at 0
RemainingDriveUnclamped(total_drive_minutes, timeline) ==
  total_drive_minutes - ActualDrivenMinutes(timeline)
RemainingDrive(total_drive_minutes, timeline) ==
  Max(0, total_drive_minutes - ActualDrivenMinutes(timeline))

TripCompleted(remaining_drive) == remaining_drive <= 0

ActualFuelStops(stops) == Cardinality({i \in 1..Len(stops) : stops[i].kind = FUEL})

\* int(total_miles / FUEL_INTERVAL_MILES), total_miles >= 0
NumFuelNeeded(total_miles) == Max(0, total_miles \div (FUEL_INTERVAL_MILES * MilesScale))

\* Faulty variant: only the fuel stops actually inserted are counted
PlannedFuelStopsActual(total_miles, stops) == ActualFuelStops(stops)
PlannedFuelStops(total_miles, stops) == Max(NumFuelNeeded(total_miles), ActualFuelStops(stops))

\* ---- _merge_segments
\* Faulty variant: the later label is taken also when it is empty
RECURSIVE MergeFromLaterLabel(_, _, _)
MergeFromLaterLabel(segments, i, merged) ==
  IF i > Len(segments) THEN merged
  ELSE LET seg == segments[i]
           last == merged[Len(merged)]
       IN IF seg.status = last.status /\ seg.start_minute = last.end_minute
          THEN MergeFromLaterLabel(segments, i + 1,
                 [merged EXCEPT ![Len(merged)] =
                    [last EXCEPT !.end_minute = seg.end_minute,
                                 !.location_label = seg.location_label]])
          ELSE MergeFromLaterLabel(segments, i + 1, Append(merged, seg))
RECURSIVE MergeFrom(_, _, _)
MergeFrom(segments, i, merged) ==
  IF i > Len(segments) THEN merged
  ELSE LET seg == segments[i]
           last == merged[Len(merged)]
       IN IF seg.status = last.status /\ seg.start_minute = last.end_minute
          THEN MergeFrom(segments, i + 1,
                 [merged EXCEPT ![Len(merged)] =
                    [last EXCEPT !.end_minute = seg.end_minute,
                                 !.location_label =
                                    IF seg.location_label # "" THEN seg.location_label ELSE @]])
          ELSE MergeFrom(segments, i + 1, Append(merged, seg))

MergeSegments(segments) ==
  IF segments = <<>> THEN <<>> ELSE MergeFrom(segments, 2, <<segments[1]>>)

\* ---- _build_daily_sheets
\* Faulty variant: one day more than the whole days, also at a day's end
NumDaysPlusOne(timeline) == timeline[Len(timeline)].end \div MINUTES_IN_DAY + 1
\* math.ceil(total_minutes / MINUTES_IN_DAY)
NumDays(timeline) == (timeline[Len(timeline)].end + MINUTES_IN_DAY - 1) \div MINUTES_IN_DAY

SegStart(evt, day_start) == Max(evt.start, day_start) - day_start
SegEnd(evt, day_start) == Min(evt.end, day_start + MINUTES_IN_DAY) - day_start

InDay(evt, day_start) ==
  /\ ~(evt.end <= day_start \/ evt.start >= day_start + MINUTES_IN_DAY)
  /\ SegStart(evt, day_start) < SegEnd(evt, day_start)

RECURSIVE DaySegments(_, _, _)
DaySegments(timeline, n, day_start) ==
  IF n = 0 THEN <<>>
  ELSE LET evt == timeline[n]
           rest == DaySegments(timeline, n - 1, day_start)
       IN IF InDay(evt, day_start)
          THEN Append(rest, [start_minute |-> SegStart(evt, day_start),
                             end_minute |-> SegEnd(evt, day_start),
                             status |-> evt.status,
                             location_label |-> evt.label])
          ELSE rest

\* evt.miles * (seg_end - seg_start) / evt_duration, summed over the day
RECURSIVE DayMiles(_, _, _)
DayMiles(timeline, n, day_start) ==
  IF n = 0 THEN 0
  ELSE LET evt == timeline[n]
       IN DayMiles(timeline, n - 1, day_start)
          + (IF InDay(evt, day_start) /\ evt.end - evt.start > 0 /\ evt.miles > 0
             THEN RoundDiv(evt.miles * (SegEnd(evt, day_start) - SegStart(evt, day_start)),
                           evt.end - evt.start)
             ELSE 0)

\* total_miles is round(day_miles, 1), kept in tenths of a mile
DaySheet(timeline, start_date, day_idx) ==
  [date |-> start_date + day_idx,
   segments |-> MergeSegments(DaySegments(timeline, Len(timeline), day_idx * MINUTES_IN_DAY)),
   total_miles |-> RoundDiv(10 * DayMiles(timeline, Len(timeline), day_idx * MINUTES_IN_DAY),
                            MilesScale)]

BuildDailySheets(timeline, start_date) ==
  IF timeline = <<>> THEN <<>>
  ELSE [d \in 1..NumDays(timeline) |-> DaySheet(timeline, start_date, d - 1)]

\* ---- The calls made to compute_plan
NoOverride == [miles |-> NoneVal, minutes |-> NoneVal]

LegOverrides ==
  {NoOverride,
   [miles |-> Some(LegMilesA * MilesScale), minutes |-> Some(LegMinutesA)],
   [miles |-> Some(LegMilesB * MilesScale), minutes |-> Some(LegMinutesB)]}

Call(total_miles, total_drive_minutes, cycle_used_hours, l1, l2) ==
  [total_miles |-> total_miles,
   total_drive_minutes |-> total_drive_minutes,
   cycle_used_hours |-> cycle_used_hours,
   pickup_label |-> "Pickup",
   dropoff_label |-> "Dropoff",
   start_date |-> Some(StartDay),
   leg1_miles |-> l1.miles, leg1_minutes |-> l1.minutes,
   leg2_miles |-> l2.miles, leg2_minutes |-> l2.minutes]

GridCalls ==
  {Call(m * MileStep * MilesScale, d * DriveStep, c * CycleStep, l1, l2) :
     m \in 0..MaxMileSteps, d \in 0..MaxDriveSteps, c \in 0..MaxCycleSteps,
     l1 \in LegOverrides, l2 \in LegOverrides}

\* The calls of tests/test_hos_engine.py: (miles, minutes, cycle hours)
TestCalls ==
  {Call(t[1] * MilesScale, t[2], t[3] * HoursScale, NoOverride, NoOverride) :
     t \in {<<150, 180, 0>>, <<550, 540, 0>>, <<800, 780, 0>>, <<700, 720, 0>>,
            <<400, 480, 65>>, <<1500, 1320, 0>>, <<200, 180, 0>>,
            <<2504, 3489, 0>>, <<1793, 2512, 69>>, <<2504, 3480, 0>>,
            <<400, 480, 20>>}}

\* Calls that are made a second time with the same arguments: the short test
\* calls, with start_date passed and with start_date omitted
RepeatedCalls ==
  LET short == {c \in TestCalls : c.total_drive_minutes <= BREAK_TRIGGER}
  IN short \cup {[c EXCEPT !.start_date = NoneVal] : c \in short}

\* Calls with a cycle_used_hours that is not a whole number of minutes
FractionCalls ==
  {Call(t[1] * MilesScale, t[2], c, NoOverride, NoOverride) :
     t \in {<<150, 180>>, <<2504, 3489>>}, c \in {CycleFractionA, CycleFractionB}}

\* Short trips at the edge: as many minutes as the break trigger, miles just
\* under the fuel interval
ShortCalls ==
  {Call(m * MilesScale, BREAK_TRIGGER, 0, NoOverride, NoOverride) : m \in {ShortMiles \div 2, ShortMiles}}

\* A call so fast (12000 miles in 558 minutes after the pickup) that ten fuel
\* stops fall into eight hours of driving: the 14-hour window and the 8-hour
\* break trigger are reached in the same minute
\* With 56.17 hours of the cycle used, the cycle runs out after the tenth fuel
\* stop, 10 minutes before the window does.
FastCalls ==
  {Call(12400 * MilesScale, 558, c,
        [miles |-> Some(400 * MilesScale), minutes |-> Some(0)], NoOverride) :
     c \in {0, 5617}}

\* A call whose dropoff ends at minute 1440 exactly: 690 minutes of driving, a
\* break, a reset, the pickup and the dropoff
WholeDayCalls == {Call(600 * MilesScale, 690, 0, NoOverride, NoOverride)}

\* Calls without driving that pass an empty pickup_label or dropoff_label: the
\* pickup and the dropoff follow each other at once
UnlabelledCalls ==
  {[Call(0, 0, 0, NoOverride, NoOverride) EXCEPT !.pickup_label = l[1], !.dropoff_label = l[2]] :
     l \in {<<"Pickup", "">>, <<"", "Dropoff">>, <<"", "">>}}

Calls ==
  GridCalls \cup TestCalls \cup RepeatedCalls \cup FractionCalls \cup ShortCalls
    \cup FastCalls \cup WholeDayCalls \cup UnlabelledCalls

\* The days the clock can show when a call is made
ClockDays == {StartDay, StartDay + 1}

NoResult == [returned |-> FALSE]
NoRequest == [step |-> "none"]

Init ==
  /\ args \in Calls
  /\ clock = StartDay
  /\ previous = NoResult
  /\ request = NoRequest
  /\ state = DriverState(InitialCycleMinutes(args.cycle_used_hours))
  /\ pc = "leg1"
  /\ remaining_miles = Leg1Miles(args)
  /\ remaining_minutes = Leg1Minutes(args)
  /\ result = NoResult

InLeg == pc \in {"leg1", "leg2"}
LegLabel == IF pc = "leg1" THEN "En route to pickup" ELSE "En route to dropoff"
AfterLeg == IF pc = "leg1" THEN "pickup" ELSE "dropoff"

\* while remaining_minutes > 0: the loop ends
LegFinished ==
  /\ InLeg
  /\ ~(remaining_minutes > 0)
  /\ pc' = AfterLeg
  /\ UNCHANGED <<caller, state, remaining_miles, remaining_minutes, result>>

\* cycle exhausted: break
CycleAbort ==
  /\ InLeg
  /\ remaining_minutes > 0
  /\ CycleExhausted(state)
  /\ pc' = AfterLeg
  /\ UNCHANGED <<caller, state, remaining_miles, remaining_minutes, result>>

\* Faulty variant: the reset is checked before the cycle
LegResetBeforeCycle ==
  /\ InLeg
  /\ remaining_minutes > 0
  /\ ResetNeeded(state)
  /\ state' = InsertReset(state)
  /\ UNCHANGED <<caller, pc, remaining_miles, remaining_minutes, result>>
LegReset ==
  /\ InLeg
  /\ remaining_minutes > 0
  /\ ~CycleExhausted(state)
  /\ ResetNeeded(state)
  /\ state' = InsertReset(state)
  /\ UNCHANGED <<caller, pc, remaining_miles, remaining_minutes, result>>

\* Faulty variant: the break is checked before the reset
LegBreakBeforeReset ==
  /\ InLeg
  /\ remaining_minutes > 0
  /\ ~CycleExhausted(state)
  /\ BreakNeeded(state)
  /\ state' = InsertBreak(state, LegLabel)
  /\ UNCHANGED <<caller, pc, remaining_miles, remaining_minutes, result>>
LegBreak ==
  /\ InLeg
  /\ remaining_minutes > 0
  /\ ~CycleExhausted(state)
  /\ ~ResetNeeded(state)
  /\ BreakNeeded(state)
  /\ state' = InsertBreak(state, LegLabel)
  /\ UNCHANGED <<caller, pc, remaining_miles, remaining_minutes, result>>

LegFuel ==
  /\ InLeg
  /\ remaining_minutes > 0
  /\ ~CycleExhausted(state)
  /\ ~ResetNeeded(state)
  /\ ~BreakNeeded(state)
  /\ \E e \in -FloatSlack..FloatSlack : FuelNeeded(state, e)
  /\ state' = InsertFuelStop(state, LegLabel)
  /\ UNCHANGED <<caller, pc, remaining_miles, remaining_minutes, result>>

LegDrive ==
  /\ InLeg
  /\ remaining_minutes > 0
  /\ ~CycleExhausted(state)
  /\ ~ResetNeeded(state)
  /\ ~BreakNeeded(state)
  /\ \E e \in -FloatSlack..FloatSlack :
       /\ ~FuelNeeded(state, e)
       /\ LET max_drive == MaxDrive(state, remaining_minutes, remaining_miles, e)
              chunk_miles == ChunkMiles(max_drive, remaining_minutes, remaining_miles)
          IN /\ state' = DriveChunk(state, max_drive, chunk_miles, LegLabel)
             /\ remaining_minutes' = remaining_minutes - max_drive
             /\ remaining_miles' = remaining_miles - chunk_miles
  /\ UNCHANGED <<caller, pc, result>>

\* Faulty variant: the pickup stop is skipped when the cycle is exhausted
PickupUnlessExhausted ==
  /\ pc = "pickup"
  /\ state' = IF CycleExhausted(state) THEN state
              ELSE InsertOnDutyStop(state, PICKUP_DURATION, PICKUP, args.pickup_label)
  /\ remaining_miles' = Leg2Miles(args)
  /\ remaining_minutes' = Leg2Minutes(args)
  /\ pc' = "leg2"
  /\ UNCHANGED <<caller, result>>
\* the pickup stop, then _drive_leg is entered for leg 2
Pickup ==
  /\ pc = "pickup"
  /\ state' = InsertOnDutyStop(state, PICKUP_DURATION, PICKUP, args.pickup_label)
  /\ remaining_miles' = Leg2Miles(args)
  /\ remaining_minutes' = Leg2Minutes(args)
  /\ pc' = "leg2"
  /\ UNCHANGED <<caller, result>>

\* the dropoff stop, the tail fill and the returned record
Dropoff ==
  /\ pc = "dropoff"
  /\ state' = InsertOnDutyStop(state, DROPOFF_DURATION, DROPOFF, args.dropoff_label)
  /\ pc' = "tail"
  /\ UNCHANGED <<caller, remaining_miles, remaining_minutes, result>>

Return ==
  /\ pc = "tail"
  /\ state' = TailFill(state)
  /\ result' =
       LET remaining_drive == RemainingDrive(args.total_drive_minutes, state'.timeline)
       IN [returned |-> TRUE,
           timeline |-> state'.timeline,
           stops |-> state'.stops,
           daily_sheets |-> BuildDailySheets(state'.timeline, StartDate(args, clock)),
           trip_completed |-> TripCompleted(remaining_drive),
           remaining_drive_minutes |-> remaining_drive,
           planned_fuel_stops |-> PlannedFuelStops(args.total_miles, state'.stops)]
  /\ pc' = "done"
  /\ UNCHANGED <<caller, remaining_miles, remaining_minutes>>

\* The caller makes the same call again, on the same day or on a later one
Repeat ==
  /\ pc = "done"
  /\ args \in RepeatedCalls
  /\ previous = NoResult
  /\ previous' = result
  /\ clock' \in {d \in ClockDays : d >= clock}
  /\ state' = DriverState(InitialCycleMinutes(args.cycle_used_hours))
  /\ pc' = "leg1"
  /\ remaining_miles' = Leg1Miles(args)
  /\ remaining_minutes' = Leg1Minutes(args)
  /\ result' = NoResult
  /\ UNCHANGED <<args, request>>

Next ==
  \/ LegFinished
  \/ CycleAbort
  \/ LegReset
  \/ LegBreak
  \/ LegFuel
  \/ LegDrive
  \/ Pickup
  \/ Dropoff
  \/ Return
  \/ Repeat

Spec == Init /\ [][Next]_vars

\* The call runs on one thread and every statement is followed by the next one:
\* a step that can be taken is eventually taken
\* Return is the one step of a state with pc = "tail" and can always be taken
\* there, so fairness on the change of pc is fairness on Return
LegStep ==
  LegFinished \/ CycleAbort \/ LegReset \/ LegBreak \/ LegFuel \/ LegDrive \/ Pickup \/ Dropoff
ReturnStep == pc = "tail" /\ pc' = "done"

LiveSpec == Spec /\ WF_vars(LegStep) /\ WF_pc(ReturnStep)

\* ---- create_plan: the POST /plan handler and the upstream calls it makes
HTTP_201_CREATED == 201
HTTP_400_BAD_REQUEST == 400
HTTP_500_INTERNAL_SERVER_ERROR == 500
\* FloatField(min_value=0, max_value=70)
MaxCycleUsedHours == 70
\* segment["duration"] / 60
SecondsPerMinute == 60

\* The classes of the exceptions raised under create_plan.  ApiError is the
\* routing SDK's own exception, KeyError a lookup in a response that lacks the
\* key, DatabaseError the ORM's: none of the three is a ValueError.
ValueError == "ValueError"
ApiError == "ApiError"
KeyError == "KeyError"
DatabaseError == "DatabaseError"
NoException == "none"

\* except ValueError: 400; except Exception: 500
ErrorStatus(exc) ==
  IF exc = ValueError THEN HTTP_400_BAD_REQUEST ELSE HTTP_500_INTERNAL_SERVER_ERROR

\* PlanInputSerializer.is_valid, cycle_used_hours in 1/HoursScale hour
IsValid(data) ==
  data.cycle_used_hours >= 0 /\ data.cycle_used_hours <= MaxCycleUsedHours * HoursScale

\* What the geocoding service can answer and what geocode raises on it
GeocodeAnswers == {"features", "no_features", "no_api_key", "api_error"}
Geocode(answer) ==
  CASE answer = "no_api_key" -> ValueError
    [] answer = "api_error" -> ApiError
    [] answer = "no_features" -> ValueError
    [] OTHER -> NoException

\* What the routing service can answer and what get_directions raises on it
DirectionsAnswers == {"routes", "no_routes", "api_error"}
GetDirections(answer) ==
  CASE answer = "api_error" -> ApiError
    [] answer = "no_routes" -> KeyError
    [] OTHER -> NoException

\* What the database can answer to the objects.create calls
PersistAnswers == {"saved", "database_error"}
Persist(answer) == IF answer = "database_error" THEN DatabaseError ELSE NoException

\* The routes of the routing service: summary miles, summary seconds and the
\* (miles, seconds) of each segment
Routes ==
  {[distance |-> t[1] * MilesScale, duration |-> t[2],
    segments |-> [i \in 1..Len(t[3]) |->
                    [distance |-> t[3][i][1] * MilesScale, duration |-> t[3][i][2]]]] :
     t \in {<<2504, 209406, <<<<400, 21630>>, <<2104, 187776>>>>>>,
            <<1793, 150750, <<<<538, 45230>>, <<1255, 105520>>>>>>,
            <<150, 10830, <<<<90, 5400>>, <<60, 5430>>>>>>,
            <<150, 10800, <<>>>>}}

\* The request bodies: cycle_used_hours in 1/HoursScale hour
RequestData ==
  {[cycle_used_hours |-> c * HoursScale] : c \in {0, 35, 60, MaxCycleUsedHours + 1}}

\* int(route["duration_minutes"]) of a duration in seconds
WholeMinutes(seconds) == seconds \div SecondsPerMinute

\* The compute_plan call of create_plan: the legs of the route when it has two,
\* the 30/70 split otherwise, start_date=date.today()
PlanCall(route, data, today) ==
  LET total_miles == route.distance
      total_drive_minutes == WholeMinutes(route.duration)
      legs == route.segments
      leg1 == IF Len(legs) >= 2
              THEN [miles |-> Some(legs[1].distance),
                    minutes |-> Some(WholeMinutes(legs[1].duration))]
              ELSE [miles |-> Some(RoundDiv(total_miles * 3, 10)),
                    minutes |-> Some((total_drive_minutes * 3) \div 10)]
      leg2 == IF Len(legs) >= 2
              THEN [miles |-> Some(legs[2].distance),
                    minutes |-> Some(WholeMinutes(legs[2].duration))]
              ELSE [miles |-> Some(total_miles - leg1.miles[1]),
                    minutes |-> Some(total_drive_minutes - leg1.minutes[1])]
  IN [Call(total_miles, total_drive_minutes, data.cycle_used_hours, leg1, leg2)
        EXCEPT !.start_date = Some(today)]

NewRequest(data) ==
  [step |-> "validate", data |-> data, geocoded |-> 0, failed |-> "none", status |-> 0]

Respond(failed, http_status) ==
  request' = [request EXCEPT !.step = "responded", !.failed = failed, !.status = http_status]

engine == <<args, state, pc, remaining_miles, remaining_minutes, result>>

CreatePlanInit ==
  /\ request \in {NewRequest(data) : data \in RequestData}
  /\ clock = StartDay
  /\ previous = NoResult
  /\ args = NoneVal
  /\ state = DriverState(0)
  /\ pc = "idle"
  /\ remaining_miles = 0
  /\ remaining_minutes = 0
  /\ result = NoResult

\* serializer.is_valid(raise_exception=True), outside the try
Validate ==
  /\ request.step = "validate"
  /\ IF IsValid(request.data)
     THEN request' = [request EXCEPT !.step = "geocode"]
     ELSE Respond("validation", HTTP_400_BAD_REQUEST)
  /\ UNCHANGED <<engine, clock, previous>>

\* the three routing_client.geocode calls, one after the other
GeocodeStep ==
  /\ request.step = "geocode"
  /\ \E answer \in GeocodeAnswers :
       \* the client is built by the first call, so only that call can miss the key
       /\ answer = "no_api_key" => request.geocoded = 0
       /\ IF Geocode(answer) = NoException
          THEN request' = [request EXCEPT
                             !.geocoded = @ + 1,
                             !.step = IF request.geocoded = 2 THEN "directions" ELSE "geocode"]
          ELSE Respond("geocoding", ErrorStatus(Geocode(answer)))
  /\ UNCHANGED <<engine, clock, previous>>

\* routing_client.get_directions, then compute_plan is entered
DirectionsStep ==
  /\ request.step = "directions"
  /\ \E answer \in DirectionsAnswers :
       IF GetDirections(answer) = NoException
       THEN \E route \in Routes :
              /\ args' = PlanCall(route, request.data, clock)
              /\ state' = DriverState(InitialCycleMinutes(args'.cycle_used_hours))
              /\ pc' = "leg1"
              /\ remaining_miles' = Leg1Miles(args')
              /\ remaining_minutes' = Leg1Minutes(args')
              /\ request' = [request EXCEPT !.step = "engine"]
              /\ UNCHANGED result
       ELSE /\ Respond("routing", ErrorStatus(GetDirections(answer)))
            /\ UNCHANGED engine
  /\ UNCHANGED <<clock, previous>>

\* compute_plan has returned: the objects.create calls and the response
PersistStep ==
  /\ request.step = "engine"
  /\ pc = "done"
  /\ \E answer \in PersistAnswers :
       IF Persist(answer) = NoException
       THEN Respond("none", HTTP_201_CREATED)
       ELSE Respond("persistence", ErrorStatus(Persist(answer)))
  /\ UNCHANGED <<engine, clock, previous>>

CreatePlanNext ==
  \/ Validate
  \/ GeocodeStep
  \/ DirectionsStep
  \/ LegFinished
  \/ CycleAbort
  \/ LegReset
  \/ LegBreak
  \/ LegFuel
  \/ LegDrive
  \/ Pickup
  \/ Dropoff
  \/ Return
  \/ PersistStep

CreatePlanSpec == CreatePlanInit /\ [][CreatePlanNext]_vars

\* ======================================================================
\* Properties
\* ======================================================================

Returned == result.returned
NoOverrides == ~Leg1Overridden(args) /\ ~Leg2Overridden(args)
Duration(evt) == evt.end - evt.start

\* DRIVING minutes of the whole timeline, counted event by event
DrivingTotal(tl) ==
  LET idx == {i \in 1..Len(tl) : tl[i].status = DRIVING}
      RECURSIVE Sum(_)
      Sum(S) == IF S = {} THEN 0
                ELSE LET i == CHOOSE x \in S : TRUE IN Duration(tl[i]) + Sum(S \ {i})
  IN Sum(idx)

\* DRIVING minutes among events 1..n since the latest SLEEPER event among them
RECURSIVE PeriodDriving(_, _)
PeriodDriving(tl, n) ==
  IF n = 0 \/ tl[n].status = SLEEPER THEN 0
  ELSE PeriodDriving(tl, n - 1) + (IF tl[n].status = DRIVING THEN Duration(tl[n]) ELSE 0)

IsBreakEvent(evt) == evt.status = OFF_DUTY /\ Duration(evt) = BREAK_DURATION
IsResetEvent(evt) == evt.status = SLEEPER /\ Duration(evt) = OFF_DUTY_RESET

\* DRIVING minutes among events 1..n since the latest 30-minute OFF_DUTY event
\* or 600-minute SLEEPER event among them
RECURSIVE RunningDrive(_, _)
RunningDrive(tl, n) ==
  IF n = 0 \/ IsBreakEvent(tl[n]) \/ IsResetEvent(tl[n]) THEN 0
  ELSE RunningDrive(tl, n - 1) + (IF tl[n].status = DRIVING THEN Duration(tl[n]) ELSE 0)

\* Start of the duty period event n lies in: the end of the latest SLEEPER
\* event before it, or minute 0
RECURSIVE PeriodStart(_, _)
PeriodStart(tl, n) ==
  IF n <= 1 THEN 0
  ELSE IF tl[n - 1].status = SLEEPER THEN tl[n - 1].end ELSE PeriodStart(tl, n - 1)

\* C1: in every duty period of the returned timeline (cut by SLEEPER events)
\* the DRIVING minutes sum to at most 660 + 1, and no DRIVING event is
\* appended while the period's driving total is already 660 or more.
C1_DrivePerPeriod ==
  Returned =>
    \A i \in 1..Len(result.timeline) :
      /\ PeriodDriving(result.timeline, i) <= DRIVE_LIMIT + 1
      /\ result.timeline[i].status = DRIVING =>
           PeriodDriving(result.timeline, i - 1) < DRIVE_LIMIT

\* A duty period driven up to the 11-hour limit, closed by a reset, with more
\* driving in the next period
C1_Witness ==
  /\ Returned
  /\ \E i \in 2..Len(result.timeline) - 1 :
       /\ result.timeline[i].status = SLEEPER
       /\ PeriodDriving(result.timeline, i - 1) = DRIVE_LIMIT
       /\ result.timeline[i + 1].status = DRIVING

\* C2: in the returned timeline the running total of DRIVING minutes since the
\* latest 30-minute OFF_DUTY event or 600-minute SLEEPER event (or minute 0)
\* never exceeds 480; PICKUP, DROPOFF and FUEL blocks do not reset the total.
C2_BreakAfter8h ==
  Returned =>
    \A i \in 1..Len(result.timeline) :
      RunningDrive(result.timeline, i) <= BREAK_TRIGGER

\* 8 hours of driving that run across an on-duty stop, then the break, then
\* more driving
C2_Witness ==
  /\ Returned
  /\ \E j, k \in 1..Len(result.timeline) :
       /\ j < k
       /\ k + 2 <= Len(result.timeline)
       /\ result.timeline[j].status = ON_DUTY_NOT_DRIVING
       /\ RunningDrive(result.timeline, j) > 0
       /\ \A m \in j..k : ~IsBreakEvent(result.timeline[m]) /\ ~IsResetEvent(result.timeline[m])
       /\ RunningDrive(result.timeline, k) = BREAK_TRIGGER
       /\ IsBreakEvent(result.timeline[k + 1])
       /\ result.timeline[k + 2].status = DRIVING

\* C3: no DRIVING event of the returned timeline reaches beyond 840 elapsed
\* minutes after the start of its duty period (minute 0 or the end of the
\* latest SLEEPER event): once the window is used up, a reset precedes any
\* further DRIVING event.
C3_WindowLimit ==
  Returned =>
    \A i \in 1..Len(result.timeline) :
      result.timeline[i].status = DRIVING =>
        result.timeline[i].end - PeriodStart(result.timeline, i) <= WINDOW_LIMIT

\* Driving that ends exactly when the 14-hour window closes, with fewer than
\* 660 minutes driven, then the reset and more driving
C3_Witness ==
  /\ Returned
  /\ \E i \in 1..Len(result.timeline) - 2 :
       /\ result.timeline[i].status = DRIVING
       /\ result.timeline[i].end - PeriodStart(result.timeline, i) = WINDOW_LIMIT
       /\ PeriodDriving(result.timeline, i) < DRIVE_LIMIT
       /\ result.timeline[i + 1].status = SLEEPER
       /\ result.timeline[i + 2].status = DRIVING

\* C4: the total DRIVING minutes of a plan never exceed the cycle budget left
\* at plan start, max(0, 4200 - initial cycle_minutes).
C4_CycleBudget ==
  Returned =>
    DrivingTotal(result.timeline)
      <= Max(0, CYCLE_LIMIT - (args.cycle_used_hours * 60) \div HoursScale)

\* A plan whose driving is cut short by the cycle: some driving, some left
C4_Witness ==
  /\ Returned
  /\ NoOverrides
  /\ DrivingTotal(result.timeline) > 0
  /\ DrivingTotal(result.timeline) < args.total_drive_minutes
  /\ state.cycle_minutes >= CYCLE_LIMIT

\* C5: after every drive chunk and stop insertion, and at the end of the
\* call, the timeline starts at minute 0, every event has end > start, each
\* event's end is the next event's start, and global_minute is the end of the
\* last event; the returned timeline is not empty.
Contiguous(tl) ==
  /\ \A i \in 1..Len(tl) : tl[i].end > tl[i].start
  /\ \A i \in 1..Len(tl) - 1 : tl[i].end = tl[i + 1].start
  /\ tl # <<>> => tl[1].start = 0

C5_TimelineContiguous ==
  /\ Contiguous(state.timeline)
  /\ state.global_minute =
       IF state.timeline = <<>> THEN 0 ELSE state.timeline[Len(state.timeline)].end
  /\ state.global_minute > 0 => state.timeline # <<>>
  /\ Returned => result.timeline # <<>> /\ Contiguous(result.timeline)

\* A returned timeline holding every kind of event, the tail fill last
C5_Witness ==
  /\ Returned
  /\ \A st \in {OFF_DUTY, SLEEPER, DRIVING, ON_DUTY_NOT_DRIVING} :
       \E i \in 1..Len(result.timeline) : result.timeline[i].status = st
  /\ result.timeline[Len(result.timeline)].label = "Off Duty"
  /\ Len(result.timeline) >= 10

\* The status and the duration section 4.2 prescribes for the covering event
\* of each stop kind
PrescribedStatus(kind) ==
  CASE kind = BREAK_30 -> OFF_DUTY
    [] kind = OFF_DUTY_10 -> SLEEPER
    [] OTHER -> ON_DUTY_NOT_DRIVING

PrescribedDuration(kind) ==
  CASE kind = BREAK_30 -> 30
    [] kind = OFF_DUTY_10 -> 600
    [] kind = FUEL -> 30
    [] OTHER -> 60

\* C6: every StopEvent at t with duration d is covered by exactly one
\* TimelineEvent, whose interval is exactly [t, t+d) and whose status is the
\* one prescribed for the stop kind (with the kind's duration).
C6_StopsCovered ==
  Returned =>
    \A k \in 1..Len(result.stops) :
      LET s == result.stops[k]
          covering == {i \in 1..Len(result.timeline) :
                         /\ result.timeline[i].start < s.global_minute + s.duration
                         /\ result.timeline[i].end > s.global_minute}
      IN /\ s.duration = PrescribedDuration(s.kind)
         /\ Cardinality(covering) = 1
         /\ \A i \in covering :
              /\ result.timeline[i].start = s.global_minute
              /\ result.timeline[i].end = s.global_minute + s.duration
              /\ result.timeline[i].status = PrescribedStatus(s.kind)

\* A plan with all five kinds of stop, a reset among them inserted by the
\* pickup/dropoff inserter right before its stop
C6_Witness ==
  /\ Returned
  /\ \A kind \in {FUEL, BREAK_30, OFF_DUTY_10, PICKUP, DROPOFF} :
       \E k \in 1..Len(result.stops) : result.stops[k].kind = kind
  /\ \E k \in 1..Len(result.stops) - 1 :
       /\ result.stops[k].kind = OFF_DUTY_10
       /\ result.stops[k + 1].kind \in {PICKUP, DROPOFF}
       /\ result.stops[k + 1].global_minute = result.stops[k].global_minute + OFF_DUTY_RESET

SegmentsCoverDay(segments) ==
  /\ segments # <<>>
  /\ segments[1].start_minute = 0
  /\ segments[Len(segments)].end_minute = MINUTES_IN_DAY
  /\ \A i \in 1..Len(segments) :
       /\ 0 <= segments[i].start_minute
       /\ segments[i].start_minute < segments[i].end_minute
       /\ segments[i].end_minute <= MINUTES_IN_DAY
  /\ \A i \in 1..Len(segments) - 1 : segments[i].end_minute = segments[i + 1].start_minute

SegmentMinutes(segments) ==
  LET RECURSIVE Sum(_)
      Sum(n) == IF n = 0 THEN 0
                ELSE Sum(n - 1) + segments[n].end_minute - segments[n].start_minute
  IN Sum(Len(segments))

\* C7: every returned day sheet has segments that start at 0, end at 1440,
\* are contiguous, lie within [0, 1440] and sum to 1440 minutes (the sheets
\* are the merged ones).
C7_SheetsCoverDay ==
  Returned =>
    /\ Len(result.daily_sheets) >= 1
    /\ \A d \in 1..Len(result.daily_sheets) :
         /\ SegmentsCoverDay(result.daily_sheets[d].segments)
         /\ SegmentMinutes(result.daily_sheets[d].segments) = MINUTES_IN_DAY

\* Several sheets; an event cut at midnight; a sheet in which merging joined
\* segments; a last day closed by the tail fill
C7_Witness ==
  /\ Returned
  /\ Len(result.daily_sheets) >= 3
  /\ \E i \in 1..Len(result.timeline) :
       result.timeline[i].start \div MINUTES_IN_DAY
         # (result.timeline[i].end - 1) \div MINUTES_IN_DAY
  /\ \E d \in 1..Len(result.daily_sheets) :
       Len(result.daily_sheets[d].segments)
         < Len(DaySegments(result.timeline, Len(result.timeline), (d - 1) * MINUTES_IN_DAY))
  /\ result.timeline[Len(result.timeline)].label = "Off Duty"

\* C8: remaining_drive_minutes = max(0, total_drive_minutes - sum of DRIVING
\* durations of the returned timeline), it is a non-negative integer, and
\* trip_completed is true exactly when it is 0.
C8_RemainingDrive ==
  Returned =>
    /\ result.remaining_drive_minutes
         = Max(0, args.total_drive_minutes - DrivingTotal(result.timeline))
    /\ result.remaining_drive_minutes \in Nat
    /\ result.trip_completed <=> (result.remaining_drive_minutes = 0)

\* More minutes driven than total_drive_minutes (leg overrides): the
\* difference is negative and the result is clamped to 0
C8_Witness ==
  /\ Returned
  /\ DrivingTotal(result.timeline) > args.total_drive_minutes
  /\ result.remaining_drive_minutes = 0
  /\ result.trip_completed

\* C9 as claimed: for every output, also with leg overrides, the total
\* duration of DRIVING events is at most total_drive_minutes.
C9_DrivingAtMostTotal ==
  Returned => DrivingTotal(result.timeline) <= args.total_drive_minutes

\* The minutes each leg is asked to drive: the override pair's minutes when
\* the pair is passed, otherwise 30% of the total (truncated) for leg 1 and
\* the total less leg 1's minutes for leg 2
AskedLeg1 ==
  IF args.leg1_miles # NoneVal /\ args.leg1_minutes # NoneVal
  THEN args.leg1_minutes[1] ELSE (3 * args.total_drive_minutes) \div 10
AskedLeg2 ==
  IF args.leg2_miles # NoneVal /\ args.leg2_minutes # NoneVal
  THEN args.leg2_minutes[1] ELSE args.total_drive_minutes - AskedLeg1

\* C9 amended: the total duration of DRIVING events is at most the minutes of
\* the two legs as driven (a negative leg counting 0); with no override pair
\* passed that is total_drive_minutes.
C9_DrivingAtMostLegs ==
  Returned =>
    /\ DrivingTotal(result.timeline) <= Max(0, AskedLeg1) + Max(0, AskedLeg2)
    /\ NoOverrides => DrivingTotal(result.timeline) <= args.total_drive_minutes

\* Overridden legs driven in full, their minutes exceeding total_drive_minutes
C9_Witness ==
  /\ Returned
  /\ ~NoOverrides
  /\ DrivingTotal(result.timeline) = Max(0, AskedLeg1) + Max(0, AskedLeg2)
  /\ DrivingTotal(result.timeline) > args.total_drive_minutes

NoDriving(tl) == \A i \in 1..Len(tl) : tl[i].status # DRIVING

\* C10 as claimed: if cycle_used_hours >= 70 then, for every
\* total_drive_minutes >= 0, there is no DRIVING event, trip_completed is
\* false and remaining_drive_minutes = total_drive_minutes.
C10_ExhaustedNeverCompleted ==
  (Returned /\ args.cycle_used_hours >= 70 * HoursScale) =>
    /\ NoDriving(result.timeline)
    /\ ~result.trip_completed
    /\ result.remaining_drive_minutes = args.total_drive_minutes

\* C10 amended: if cycle_used_hours >= 70 there is no DRIVING event and
\* remaining_drive_minutes = total_drive_minutes; trip_completed is false
\* exactly when total_drive_minutes > 0.
C10_ExhaustedNoDriving ==
  (Returned /\ args.cycle_used_hours >= 70 * HoursScale) =>
    /\ NoDriving(result.timeline)
    /\ result.remaining_drive_minutes = args.total_drive_minutes
    /\ result.trip_completed <=> (args.total_drive_minutes = 0)

\* An exhausted cycle with minutes to drive on both legs: nothing is driven
C10_Witness ==
  /\ Returned
  /\ args.cycle_used_hours >= 70 * HoursScale
  /\ Leg1Minutes(args) > 0
  /\ Leg2Minutes(args) > 0
  /\ args.total_drive_minutes > 0
  /\ ~result.trip_completed
  /\ Len(result.timeline) = 3

\* The stop checks of _drive_leg that hold in st, weighted so that every stop
\* insertion of the loop lowers the sum: a reset clears the reset and the
\* break check, a break or a fuel stop clears its own check and can only set
\* the reset check
StopRank(st) ==
  (IF BreakNeeded(st) THEN 4 ELSE 0)
  + (IF \E e \in -FloatSlack..FloatSlack : FuelNeeded(st, e) THEN 2 ELSE 0)
  + (IF ResetNeeded(st) THEN 1 ELSE 0)

\* C11: every call terminates.  Each step of the _drive_leg loop either
\* leaves the loop (minutes used up or cycle exhausted), or drives at least
\* one minute, lowering remaining_minutes, or inserts one stop; a stop
\* insertion lowers StopRank, so at most three stops follow one another
\* without driving or leaving the loop; and every call reaches its return.
C11_Terminates ==
  /\ [][InLeg =>
          \/ pc' = AfterLeg /\ (remaining_minutes <= 0 \/ CycleExhausted(state))
          \/ /\ remaining_minutes' <= remaining_minutes - 1
             /\ remaining_minutes' >= 0
             /\ Len(state'.timeline) = Len(state.timeline) + 1
             /\ state'.stops = state.stops
          \/ /\ remaining_minutes' = remaining_minutes
             /\ Len(state'.stops) = Len(state.stops) + 1
             /\ StopRank(state') < StopRank(state)]_vars
  /\ <>(pc = "done" /\ Returned)

\* A returned plan in which the loop inserted a reset and a fuel stop one
\* after the other and then drove on, and in which a chunk of a single minute
\* was driven
C11_Witness ==
  /\ Returned
  /\ \E i \in 1..Len(result.timeline) :
       result.timeline[i].status = DRIVING /\ Duration(result.timeline[i]) = 1
  /\ \E i \in 1..Len(result.timeline) - 2 :
       /\ IsResetEvent(result.timeline[i])
       /\ result.timeline[i + 1].label = "Fuel stop"
       /\ result.timeline[i + 2].status = DRIVING

\* C12: compute_plan is deterministic: a second call with the same arguments,
\* also one that omits start_date, returns the same timeline, stops,
\* daily_sheets, trip_completed, remaining_drive_minutes and
\* planned_fuel_stops as the first; the result depends on no clock read.
C12_Deterministic ==
  (Returned /\ previous # NoResult) =>
    /\ result.timeline = previous.timeline
    /\ result.stops = previous.stops
    /\ result.daily_sheets = previous.daily_sheets
    /\ result.trip_completed = previous.trip_completed
    /\ result.remaining_drive_minutes = previous.remaining_drive_minutes
    /\ result.planned_fuel_stops = previous.planned_fuel_stops

\* The event of tl that covers a FUEL stop of stops
IsFuelEvent(evt, stops) ==
  \E k \in 1..Len(stops) :
    /\ stops[k].kind = FUEL
    /\ stops[k].global_minute = evt.start
    /\ evt.status = ON_DUTY_NOT_DRIVING

\* Miles attributed to events 1..n since the latest FUEL stop among them
RECURSIVE MilesSinceFuel(_, _, _)
MilesSinceFuel(tl, stops, n) ==
  IF n = 0 \/ IsFuelEvent(tl[n], stops) THEN 0
  ELSE MilesSinceFuel(tl, stops, n - 1) + tl[n].miles

FuelInterval == FUEL_INTERVAL_MILES * MilesScale

FuelStopCount == Cardinality({k \in 1..Len(result.stops) : result.stops[k].kind = FUEL})

\* Miles of the DRIVING events of tl
DrivenMiles(tl) ==
  LET RECURSIVE Sum(_)
      Sum(n) == IF n = 0 THEN 0
                ELSE Sum(n - 1) + (IF tl[n].status = DRIVING THEN tl[n].miles ELSE 0)
  IN Sum(Len(tl))

\* The most miles a DRIVING event of tl covers in one minute (rounded up), at
\* least the rounding unit of the miles
MilesPerMinute(tl) ==
  LET RECURSIVE Most(_)
      Most(n) == IF n = 0 THEN FloatSlack
                 ELSE Max(Most(n - 1),
                          IF tl[n].status = DRIVING
                          THEN (tl[n].miles + Duration(tl[n]) - 1) \div Duration(tl[n])
                          ELSE 0)
  IN Most(Len(tl))

\* Driven to completion with the default leg split
DrivenToCompletion ==
  /\ Returned
  /\ NoOverrides
  /\ result.trip_completed
  /\ args.total_drive_minutes > 0
  /\ DrivingTotal(result.timeline) = args.total_drive_minutes

\* C14 as claimed: a trip driven to completion with the default leg split has
\* at least floor(total_miles / 1000) FUEL StopEvents.
C14_FuelStopsFloor ==
  DrivenToCompletion => FuelStopCount >= args.total_miles \div FuelInterval

\* C14 amended: a fuel stop is inserted only when driving goes on after the
\* miles since the last one reached 1000, so with D the miles driven and m
\* the most miles driven in one minute, a trip driven to completion has at
\* least D / (1000 + m) - 1 FUEL StopEvents.
C14_FuelStopsDriven ==
  DrivenToCompletion =>
    (FuelStopCount + 1) * (FuelInterval + MilesPerMinute(result.timeline))
      >= DrivenMiles(result.timeline)

\* A completed trip with two fuel stops or more and fewer of them than
\* floor(total_miles / 1000), all of total_miles being driven
C14_Witness ==
  /\ DrivenToCompletion
  /\ FuelStopCount >= 2
  /\ FuelStopCount < args.total_miles \div FuelInterval
  /\ DrivenMiles(result.timeline) = args.total_miles

\* C15: for every call planned_fuel_stops is the larger of
\* floor(total_miles / 1000) and the number of FUEL StopEvents, also when the
\* trip is cut short by the cycle limit.
C15_PlannedFuelStops ==
  Returned =>
    /\ result.planned_fuel_stops >= args.total_miles \div FuelInterval
    /\ result.planned_fuel_stops >= FuelStopCount
    /\ \/ result.planned_fuel_stops = args.total_miles \div FuelInterval
       \/ result.planned_fuel_stops = FuelStopCount

\* A trip cut short by the cycle limit after a fuel stop, with fewer FUEL
\* stops than floor(total_miles / 1000)
C15_Witness ==
  /\ Returned
  /\ ~result.trip_completed
  /\ state.cycle_minutes >= CYCLE_LIMIT
  /\ FuelStopCount >= 1
  /\ FuelStopCount < args.total_miles \div FuelInterval
  /\ result.planned_fuel_stops = args.total_miles \div FuelInterval

StopsOfKind(stops, kind) == {k \in 1..Len(stops) : stops[k].kind = kind}

\* C16: every plan has exactly one PICKUP and exactly one DROPOFF StopEvent,
\* each of 60 minutes, the PICKUP before the DROPOFF and the DROPOFF last of
\* all StopEvents, for every input, also when the 70-hour cycle is exhausted
\* before or during either leg.
C16_PickupThenDropoff ==
  Returned =>
    /\ Cardinality(StopsOfKind(result.stops, PICKUP)) = 1
    /\ Cardinality(StopsOfKind(result.stops, DROPOFF)) = 1
    /\ \A p \in StopsOfKind(result.stops, PICKUP), d \in StopsOfKind(result.stops, DROPOFF) :
         /\ p < d
         /\ d = Len(result.stops)
         /\ result.stops[p].duration = 60
         /\ result.stops[d].duration = 60
         /\ result.stops[p].global_minute + 60 <= result.stops[d].global_minute

\* The cycle runs out while leg 1 is being driven: leg 1 is cut short, leg 2
\* is not driven at all, and both stops are there
C16_Witness ==
  /\ Returned
  /\ args.cycle_used_hours < 70 * HoursScale
  /\ Leg2Minutes(args) > 0
  /\ \E i \in 1..Len(result.timeline) : result.timeline[i].label = "En route to pickup"
  /\ \A i \in 1..Len(result.timeline) : result.timeline[i].label # "En route to dropoff"
  /\ DrivingTotal(result.timeline) < Leg1Minutes(args)
  /\ Cardinality(StopsOfKind(result.stops, PICKUP)) = 1
  /\ result.stops[Len(result.stops)].kind = DROPOFF

\* C17: with total_drive_minutes = 0 and no leg overrides, for every
\* total_miles and cycle_used_hours, the timeline is exactly the pickup
\* [0,60) and the dropoff [60,120), both ON_DUTY_NOT_DRIVING, and the
\* tail-fill OFF_DUTY [120,1440); the stops are exactly PICKUP and DROPOFF.
C17_ZeroMinutes ==
  (Returned /\ NoOverrides /\ args.total_drive_minutes = 0) =>
    /\ Len(result.timeline) = 3
    /\ result.timeline[1].start = 0 /\ result.timeline[1].end = 60
    /\ result.timeline[1].status = ON_DUTY_NOT_DRIVING
    /\ result.timeline[1].label = args.pickup_label
    /\ result.timeline[2].start = 60 /\ result.timeline[2].end = 120
    /\ result.timeline[2].status = ON_DUTY_NOT_DRIVING
    /\ result.timeline[2].label = args.dropoff_label
    /\ result.timeline[3].start = 120 /\ result.timeline[3].end = 1440
    /\ result.timeline[3].status = OFF_DUTY
    /\ Len(result.stops) = 2
    /\ result.stops[1].kind = PICKUP /\ result.stops[1].global_minute = 0
    /\ result.stops[2].kind = DROPOFF /\ result.stops[2].global_minute = 60

\* No minutes to drive, miles to cover and a cycle that is used in part or
\* in full
C17_Witness ==
  /\ Returned
  /\ NoOverrides
  /\ args.total_drive_minutes = 0
  /\ args.total_miles > FuelInterval
  /\ args.cycle_used_hours > 0
  /\ Len(result.timeline) = 3

\* _drive_leg has just been entered for leg 1, for leg 2: remaining_miles and
\* remaining_minutes are the leg's miles and minutes
AtLeg1Start == pc = "leg1" /\ state.timeline = <<>>
AtLeg2Start ==
  /\ pc = "leg2"
  /\ state.stops # <<>>
  /\ state.stops[Len(state.stops)].kind = PICKUP
  /\ state.timeline[Len(state.timeline)].start = state.stops[Len(state.stops)].global_minute

\* The miles leg 1 is asked to drive
AskedLeg1Miles ==
  IF args.leg1_miles # NoneVal /\ args.leg1_minutes # NoneVal
  THEN args.leg1_miles[1] ELSE RoundDiv(3 * args.total_miles, 10)

\* x is p tenths of total, to the rounding of one unit
TenthsOf(x, p, total) == 10 * x > p * total - 10 /\ 10 * x < p * total + 10

C19_CycleRounded ==
  AtLeg1Start =>
    state.cycle_minutes = RoundDiv(args.cycle_used_hours * 60, HoursScale)

\* C20: a short trip has no HOS stops: with cycle_used_hours = 0, the default
\* leg split, total_drive_minutes <= 480 and total_miles < 1000 the stops are
\* exactly PICKUP then DROPOFF (no FUEL, BREAK_30 or OFF_DUTY_10),
\* trip_completed is true and remaining_drive_minutes is 0.
C20_ShortTrip ==
  (/\ Returned
   /\ NoOverrides
   /\ args.cycle_used_hours = 0
   /\ args.total_drive_minutes <= 480
   /\ args.total_miles < FuelInterval) =>
    /\ Len(result.stops) = 2
    /\ result.stops[1].kind = PICKUP
    /\ result.stops[2].kind = DROPOFF
    /\ result.trip_completed
    /\ result.remaining_drive_minutes = 0

\* The longest short trip: 480 minutes driven, ended at the break trigger,
\* over miles that stay under the fuel interval
C20_Witness ==
  /\ Returned
  /\ NoOverrides
  /\ args.cycle_used_hours = 0
  /\ args.total_drive_minutes = 480
  /\ args.total_miles > 0
  /\ args.total_miles < FuelInterval
  /\ DrivingTotal(result.timeline) = 480
  /\ state.cumulative_drive = BREAK_TRIGGER
  /\ Len(result.stops) = 2

\* C21: every TimelineEvent of every output has miles >= 0, nonzero only on
\* DRIVING events, for every call, also when only one of the two leg override
\* pairs is passed.
C21_MilesNonNegative ==
  Returned =>
    \A i \in 1..Len(result.timeline) :
      /\ result.timeline[i].miles >= 0
      /\ result.timeline[i].miles # 0 => result.timeline[i].status = DRIVING

Responded == request.step = "responded"
UpstreamFailure == request.failed \in {"geocoding", "routing"}

\* C22: create_plan answers an upstream geocoding or routing failure with HTTP
\* 400 or 502 and a persistence failure with HTTP 500; no upstream failure is
\* answered with 500.
C22_UpstreamNever500 ==
  Responded =>
    /\ UpstreamFailure => request.status \in {HTTP_400_BAD_REQUEST, 502}
    /\ request.failed = "persistence" => request.status = HTTP_500_INTERNAL_SERVER_ERROR

\* The events and stops a step appends
AppendedEvents == SubSeq(state'.timeline, Len(state.timeline) + 1, Len(state'.timeline))
AppendedStops == SubSeq(state'.stops, Len(state.stops) + 1, Len(state'.stops))

\* The triggers as the counters show them at the top of an iteration
InIteration == InLeg /\ remaining_minutes > 0
CycleOut == state.cycle_minutes >= CYCLE_LIMIT
ResetDue == state.on_duty_minutes >= WINDOW_LIMIT \/ state.drive_minutes >= DRIVE_LIMIT
BreakDue == state.cumulative_drive >= BREAK_TRIGGER
FuelDue == state.miles_since_fuel >= FuelInterval + FloatSlack
FuelNotDue == state.miles_since_fuel < FuelInterval - FloatSlack
AppendsOnly(status, kinds) ==
  /\ Len(AppendedEvents) = 1
  /\ AppendedEvents[1].status = status
  /\ Len(AppendedStops) = Cardinality(kinds)
  /\ \A k \in 1..Len(AppendedStops) : AppendedStops[k].kind \in kinds

\* C23: every iteration of _drive_leg performs exactly one action, chosen by
\* the fixed priority cycle-abort > reset > break > fuel > drive: nothing is
\* driven in an iteration where a trigger fires; with the drive or window
\* limit exhausted and cumulative_drive >= 480 at once a reset and no break is
\* inserted; with the cycle exhausted the leg ends without any stop, whatever
\* else is due.
C23_OneActionByPriority ==
  [][InIteration =>
       /\ Len(AppendedEvents) <= 1
       /\ CycleOut =>
            /\ state' = state
            /\ pc' = AfterLeg
       /\ ~CycleOut =>
            /\ pc' = pc
            /\ ResetDue => AppendsOnly(SLEEPER, {OFF_DUTY_10})
            /\ ~ResetDue /\ BreakDue => AppendsOnly(OFF_DUTY, {BREAK_30})
            /\ ~ResetDue /\ ~BreakDue /\ FuelDue => AppendsOnly(ON_DUTY_NOT_DRIVING, {FUEL})
            /\ ~ResetDue /\ ~BreakDue /\ FuelNotDue => AppendsOnly(DRIVING, {})
            /\ ~ResetDue /\ ~BreakDue =>
                 AppendsOnly(ON_DUTY_NOT_DRIVING, {FUEL}) \/ AppendsOnly(DRIVING, {})
            /\ AppendedEvents[1].status = DRIVING <=> remaining_minutes' < remaining_minutes
  ]_vars

\* The window runs out in the minute the break trigger is reached: reset and
\* break are due together, in a leg with minutes left
C23_Witness ==
  /\ InIteration
  /\ ~CycleOut
  /\ state.on_duty_minutes >= WINDOW_LIMIT
  /\ BreakDue

\* The five limits of a chunk, read from the counters before it
ChunkLimit ==
  Min(remaining_minutes,
      Min(DRIVE_LIMIT - state.drive_minutes,
          Min(WINDOW_LIMIT - state.on_duty_minutes,
              Min(CYCLE_LIMIT - state.cycle_minutes, BREAK_TRIGGER - state.cumulative_drive))))

DrivingAppended == Len(AppendedEvents) = 1 /\ AppendedEvents[1].status = DRIVING

\* C24: every DRIVING chunk is at least 1 minute long and at most
\* min(remaining_minutes, 660 - drive_minutes, 840 - on_duty_minutes,
\* 4200 - cycle_minutes, 480 - cumulative_drive) as read just before the chunk,
\* and advances global_minute, drive_minutes, on_duty_minutes, cumulative_drive
\* and cycle_minutes by exactly its length.
C24_ChunkWithinLimits ==
  [][InLeg /\ DrivingAppended =>
       LET length == Duration(AppendedEvents[1])
       IN /\ length \in Nat
          /\ length >= 1
          /\ length <= ChunkLimit
          /\ AppendedEvents[1].start = state.global_minute
          /\ state'.global_minute = state.global_minute + length
          /\ state'.drive_minutes = state.drive_minutes + length
          /\ state'.on_duty_minutes = state.on_duty_minutes + length
          /\ state'.cumulative_drive = state.cumulative_drive + length
          /\ state'.cycle_minutes = state.cycle_minutes + length
          /\ remaining_minutes' = remaining_minutes - length
  ]_vars

\* A chunk that the 14-hour window alone has cut: it ends with the window
\* used up, the other limits and the leg not
C24_Witness ==
  /\ InLeg
  /\ state.timeline # <<>>
  /\ state.timeline[Len(state.timeline)].status = DRIVING
  /\ state.on_duty_minutes = WINDOW_LIMIT
  /\ state.drive_minutes < DRIVE_LIMIT
  /\ state.cumulative_drive < BREAK_TRIGGER
  /\ state.cycle_minutes < CYCLE_LIMIT
  /\ remaining_minutes > 0

AtOnDutyStop == pc \in {"pickup", "dropoff"}
OnDutyStopKind == IF pc = "pickup" THEN PICKUP ELSE DROPOFF
OnDutyStopDuration == IF pc = "pickup" THEN PICKUP_DURATION ELSE DROPOFF_DURATION
IsOnDutyStop(evt, stop, kind, duration) ==
  /\ evt.status = ON_DUTY_NOT_DRIVING
  /\ Duration(evt) = duration
  /\ stop.kind = kind
  /\ stop.duration = duration
  /\ stop.global_minute = evt.start

\* C25: the pickup/dropoff inserter puts a 10-hour reset immediately before
\* the stop exactly when 840 - on_duty_minutes < duration and never otherwise,
\* whatever the 70-hour cycle shows; right after every PICKUP and DROPOFF
\* on_duty_minutes is at most 840.
C25_ResetBeforeStop ==
  [][AtOnDutyStop =>
       LET n == Len(AppendedEvents)
           k == Len(AppendedStops)
       IN /\ IF WINDOW_LIMIT - state.on_duty_minutes < OnDutyStopDuration
             THEN /\ n = 2 /\ k = 2
                  /\ IsResetEvent(AppendedEvents[1])
                  /\ AppendedStops[1].kind = OFF_DUTY_10
                  /\ AppendedEvents[1].start = state.global_minute
                  /\ AppendedEvents[1].end = AppendedEvents[2].start
             ELSE /\ n = 1 /\ k = 1
                  /\ AppendedEvents[1].start = state.global_minute
          /\ IsOnDutyStop(AppendedEvents[n], AppendedStops[k], OnDutyStopKind, OnDutyStopDuration)
          /\ state'.on_duty_minutes <= WINDOW_LIMIT
  ]_vars

\* A stop just inserted behind a reset although the 70-hour cycle was used up
\* before it
C25_Witness ==
  /\ pc \in {"leg2", "tail"}
  /\ Len(state.timeline) >= 2
  /\ IsResetEvent(state.timeline[Len(state.timeline) - 1])
  /\ state.stops[Len(state.stops)].kind \in {PICKUP, DROPOFF}
  /\ state.stops[Len(state.stops)].global_minute = state.timeline[Len(state.timeline)].start
  /\ state.cycle_minutes - state.stops[Len(state.stops)].duration >= CYCLE_LIMIT

\* The step appends a reset: alone (in a leg) or in front of a pickup or dropoff
ResetAppended == Len(AppendedEvents) >= 1 /\ AppendedEvents[1].status = SLEEPER
\* What the step adds on top of the reset: the stop's minutes, on duty
AfterReset == IF AtOnDutyStop THEN OnDutyStopDuration ELSE 0

\* C26: from every state in which it is called, the reset inserter sets
\* drive_minutes, on_duty_minutes and cumulative_drive to 0, advances
\* global_minute by 600 and leaves cycle_minutes and miles_since_fuel as they
\* were.
C26_ResetFrame ==
  [][ResetAppended =>
       /\ AppendedEvents[1].start = state.global_minute
       /\ AppendedEvents[1].end = state.global_minute + OFF_DUTY_RESET
       /\ AppendedStops[1] = StopEvent(OFF_DUTY_10, state.global_minute, OFF_DUTY_RESET,
                                       "10-hour off-duty reset")
       /\ state'.global_minute = state.global_minute + OFF_DUTY_RESET + AfterReset
       /\ state'.drive_minutes = 0
       /\ state'.cumulative_drive = 0
       /\ state'.on_duty_minutes = AfterReset
       /\ state'.cycle_minutes = state.cycle_minutes + AfterReset
       /\ state'.miles_since_fuel = state.miles_since_fuel
  ]_vars

\* A reset just inserted in front of the dropoff, with cycle minutes used and
\* miles driven since the last fuel stop, in a plan with an earlier reset between
\* two driving chunks of a leg
C26_Witness ==
  /\ pc = "tail"
  /\ Len(state.timeline) >= 2
  /\ IsResetEvent(state.timeline[Len(state.timeline) - 1])
  /\ state.on_duty_minutes = DROPOFF_DURATION
  /\ state.cycle_minutes > DROPOFF_DURATION
  /\ state.miles_since_fuel > 0
  /\ \E i \in 2..Len(state.timeline) - 2 :
       /\ IsResetEvent(state.timeline[i])
       /\ state.timeline[i - 1].status = DRIVING
       /\ state.timeline[i + 1].status = DRIVING

\* The kind of the stop the step has appended last, "" when it appended none
AppendedKind == IF AppendedStops = <<>> THEN "" ELSE AppendedStops[Len(AppendedStops)].kind
\* The counters the stop itself starts from: those the reset in front of it has
\* left when there is one, the state's otherwise
BeforeStop ==
  IF ResetAppended
  THEN [state EXCEPT !.drive_minutes = 0, !.on_duty_minutes = 0, !.cumulative_drive = 0]
  ELSE state

\* C27: the stops other than the reset change exactly the counters of the stop
\* table: BREAK_30 adds 30 to on_duty_minutes and zeroes cumulative_drive;
\* FUEL adds 30 to on_duty_minutes and cycle_minutes and zeroes
\* miles_since_fuel; PICKUP and DROPOFF add 60 to on_duty_minutes and
\* cycle_minutes; every other counter stays as it was when the stop began.
C27_StopFrames ==
  [][/\ AppendedKind = BREAK_30 =>
          /\ state'.on_duty_minutes = state.on_duty_minutes + 30
          /\ state'.cumulative_drive = 0
          /\ state'.drive_minutes = state.drive_minutes
          /\ state'.cycle_minutes = state.cycle_minutes
          /\ state'.miles_since_fuel = state.miles_since_fuel
     /\ AppendedKind = FUEL =>
          /\ state'.on_duty_minutes = state.on_duty_minutes + 30
          /\ state'.cycle_minutes = state.cycle_minutes + 30
          /\ state'.miles_since_fuel = 0
          /\ state'.drive_minutes = state.drive_minutes
          /\ state'.cumulative_drive = state.cumulative_drive
     /\ AppendedKind \in {PICKUP, DROPOFF} =>
          /\ state'.on_duty_minutes = BeforeStop.on_duty_minutes + 60
          /\ state'.cycle_minutes = state.cycle_minutes + 60
          /\ state'.drive_minutes = BeforeStop.drive_minutes
          /\ state'.cumulative_drive = BeforeStop.cumulative_drive
          /\ state'.miles_since_fuel = state.miles_since_fuel
  ]_vars

\* A fuel stop just inserted in leg 2 with driving behind it since the last
\* break, in a plan that has had a break and a pickup without a reset before it
C27_Witness ==
  /\ pc = "leg2"
  /\ state.stops # <<>>
  /\ state.stops[Len(state.stops)].kind = FUEL
  /\ state.stops[Len(state.stops)].global_minute = state.timeline[Len(state.timeline)].start
  /\ state.drive_minutes > 0
  /\ state.cumulative_drive > 0
  /\ \E i \in 1..Len(state.timeline) : IsBreakEvent(state.timeline[i])
  /\ \E i \in 2..Len(state.timeline) :
       /\ state.timeline[i].label = args.pickup_label
       /\ state.timeline[i - 1].status = DRIVING

LastEvent(tl) == tl[Len(tl)]

\* C28: after the dropoff, when global_minute mod 1440 is not 0, exactly one
\* OFF_DUTY event of 1440 - (global_minute mod 1440) minutes is appended, with
\* no StopEvent, and when it is 0 nothing is appended; hence the last event of
\* the timeline ends at a positive multiple of 1440 and the filler is shorter
\* than 1440 minutes.
C28_TailFill ==
  /\ [][pc = "tail" =>
          /\ AppendedStops = <<>>
          /\ IF state.global_minute % 1440 # 0
             THEN /\ Len(AppendedEvents) = 1
                  /\ AppendedEvents[1].status = OFF_DUTY
                  /\ AppendedEvents[1].start = state.global_minute
                  /\ Duration(AppendedEvents[1]) = 1440 - (state.global_minute % 1440)
                  /\ Duration(AppendedEvents[1]) < 1440
             ELSE AppendedEvents = <<>>
          /\ result'.timeline = state'.timeline
          /\ result'.stops = state.stops
     ]_vars
  /\ [](Returned =>
          /\ LastEvent(result.timeline).end > 0
          /\ LastEvent(result.timeline).end % 1440 = 0)

\* A returned plan whose dropoff ended within a day: the filler is its last
\* event and runs to the end of that day
C28_Witness ==
  /\ Returned
  /\ Len(result.timeline) >= 2
  /\ result.timeline[Len(result.timeline) - 1].label = args.dropoff_label
  /\ result.timeline[Len(result.timeline) - 1].end % 1440 # 0
  /\ LastEvent(result.timeline).status = OFF_DUTY
  /\ LastEvent(result.timeline).label = "Off Duty"
  /\ result.stops[Len(result.stops)].kind = DROPOFF

\* The start date of the sheets: the one passed, the clock's day otherwise
FirstDate == IF args.start_date = NoneVal THEN clock ELSE args.start_date[1]
\* Event evt overlaps day d (0-based), and the part of it within that day,
\* in minutes of the day
Overlaps(evt, d) == evt.start < 1440 * (d + 1) /\ evt.end > 1440 * d
ClipStart(evt, d) == Max(evt.start, 1440 * d) - 1440 * d
ClipEnd(evt, d) == Min(evt.end, 1440 * (d + 1)) - 1440 * d
\* Minutes of status s that the events put into day d
ClippedMinutes(tl, d, s) ==
  LET RECURSIVE Sum(_)
      Sum(n) == IF n = 0 THEN 0
                ELSE Sum(n - 1) + (IF tl[n].status = s /\ Overlaps(tl[n], d)
                                   THEN ClipEnd(tl[n], d) - ClipStart(tl[n], d) ELSE 0)
  IN Sum(Len(tl))
\* Minutes of status s in the segments of a sheet
StatusMinutes(segments, s) ==
  LET RECURSIVE Sum(_)
      Sum(n) == IF n = 0 THEN 0
                ELSE Sum(n - 1) + (IF segments[n].status = s
                                   THEN segments[n].end_minute - segments[n].start_minute ELSE 0)
  IN Sum(Len(segments))
Statuses == {OFF_DUTY, SLEEPER, DRIVING, ON_DUTY_NOT_DRIVING}

\* C29: there are ceil(end of the last timeline event / 1440) day sheets;
\* sheet d (0-based) carries the date start_date + d, so the dates ascend day by
\* day; and sheet d holds exactly the parts of the timeline events that fall
\* into [1440*d, 1440*(d+1)), clipped to that day.
C29_SheetsSliceTimeline ==
  Returned =>
    LET tl == result.timeline
        sheets == result.daily_sheets
        last == tl[Len(tl)].end
    IN /\ 1440 * Len(sheets) >= last
       /\ 1440 * (Len(sheets) - 1) < last
       /\ \A d \in 1..Len(sheets) :
            /\ sheets[d].date = FirstDate + (d - 1)
            /\ d > 1 => sheets[d].date = sheets[d - 1].date + 1
            /\ \A i \in 1..Len(tl) :
                 Overlaps(tl[i], d - 1) =>
                   \E k \in 1..Len(sheets[d].segments) :
                     /\ sheets[d].segments[k].status = tl[i].status
                     /\ sheets[d].segments[k].start_minute <= ClipStart(tl[i], d - 1)
                     /\ sheets[d].segments[k].end_minute >= ClipEnd(tl[i], d - 1)
            /\ \A k \in 1..Len(sheets[d].segments) :
                 /\ \E i \in 1..Len(tl) :
                      /\ Overlaps(tl[i], d - 1)
                      /\ tl[i].status = sheets[d].segments[k].status
                      /\ ClipStart(tl[i], d - 1) = sheets[d].segments[k].start_minute
                 /\ \E i \in 1..Len(tl) :
                      /\ Overlaps(tl[i], d - 1)
                      /\ tl[i].status = sheets[d].segments[k].status
                      /\ ClipEnd(tl[i], d - 1) = sheets[d].segments[k].end_minute
            /\ \A s \in Statuses :
                 StatusMinutes(sheets[d].segments, s) = ClippedMinutes(tl, d - 1, s)

\* A returned plan of three days or more with an event that runs over
\* midnight and is cut into two sheets
C29_Witness ==
  /\ Returned
  /\ Len(result.daily_sheets) >= 3
  /\ \E i \in 1..Len(result.timeline), d \in 1..Len(result.daily_sheets) - 1 :
       /\ result.timeline[i].start < 1440 * d
       /\ result.timeline[i].end > 1440 * d
       /\ result.timeline[i].status = DRIVING

\* The parts of the timeline events within day d (0-based), before merging
Clips(tl, d) ==
  LET idx == {i \in 1..Len(tl) : Overlaps(tl[i], d)}
      lo == CHOOSE i \in idx : \A j \in idx : i <= j
  IN [k \in 1..Cardinality(idx) |->
        [start_minute |-> ClipStart(tl[lo + k - 1], d),
         end_minute |-> ClipEnd(tl[lo + k - 1], d),
         status |-> tl[lo + k - 1].status,
         location_label |-> tl[lo + k - 1].label]]
Touching(a, b) == a.status = b.status /\ a.end_minute = b.start_minute
\* Where the runs of touching same-status segments begin, the k-th of them and
\* its end
RunStarts(c) == {a \in 1..Len(c) : a = 1 \/ ~Touching(c[a - 1], c[a])}
RunStart(c, k) == CHOOSE a \in RunStarts(c) : Cardinality({x \in RunStarts(c) : x <= a}) = k
RunEnd(c, k) == IF k = Cardinality(RunStarts(c)) THEN Len(c) ELSE RunStart(c, k + 1) - 1
\* The last non-empty label among segments a..b, "" when all are empty
LastLabel(c, a, b) ==
  LET labelled == {j \in a..b : c[j].location_label # ""}
  IN IF labelled = {} THEN ""
     ELSE c[CHOOSE j \in labelled : \A x \in labelled : x <= j].location_label

\* C30: merging joins every run of consecutive touching segments of one status
\* into one segment over the whole run, labelled with the last non-empty label
\* of the run; in every day sheet no two adjacent segments have the same
\* status, and the merged segments cover the same interval and the same
\* minutes per status as the unmerged ones.
C30_MergeRuns ==
  Returned =>
    \A d \in 1..Len(result.daily_sheets) :
      LET c == Clips(result.timeline, d - 1)
          m == result.daily_sheets[d].segments
      IN /\ Len(m) = Cardinality(RunStarts(c))
         /\ \A k \in 1..Len(m) :
              /\ m[k].start_minute = c[RunStart(c, k)].start_minute
              /\ m[k].end_minute = c[RunEnd(c, k)].end_minute
              /\ m[k].status = c[RunStart(c, k)].status
              /\ m[k].location_label = LastLabel(c, RunStart(c, k), RunEnd(c, k))
         /\ \A k \in 1..Len(m) - 1 : m[k].status # m[k + 1].status
         /\ m[1].start_minute = c[1].start_minute
         /\ m[Len(m)].end_minute = c[Len(c)].end_minute
         /\ \A s \in Statuses : StatusMinutes(m, s) = StatusMinutes(c, s)

\* A returned sheet in which the pickup and the unlabelled dropoff behind it
\* are merged into one segment that keeps the pickup's label
C30_Witness ==
  /\ Returned
  /\ args.pickup_label # ""
  /\ args.dropoff_label = ""
  /\ \E k \in 1..Len(result.daily_sheets[1].segments) :
       LET seg == result.daily_sheets[1].segments[k]
       IN /\ seg.status = ON_DUTY_NOT_DRIVING
          /\ seg.end_minute - seg.start_minute = PICKUP_DURATION + DROPOFF_DURATION
          /\ seg.location_label = args.pickup_label

\* C31: a trip is reported incomplete only because the 70-hour cycle ran out:
\* in every returned plan, also one computed from the leg minutes that
\* create_plan passes, trip_completed = FALSE implies that cycle_minutes is at
\* least 4200 at the end of the plan.
C31_IncompleteOnlyByCycle ==
  Returned => (~result.trip_completed => state.cycle_minutes >= CYCLE_LIMIT)

\* The indices of the 10-hour reset events of a timeline and the end of the
\* latest of them, 0 when there is none
ResetIndices(tl) == {i \in 1..Len(tl) : IsResetEvent(tl[i])}
LatestReset(tl) == CHOOSE i \in ResetIndices(tl) : \A j \in ResetIndices(tl) : j <= i
LatestResetEnd(tl) == IF ResetIndices(tl) = {} THEN 0 ELSE tl[LatestReset(tl)].end
BeforeTailFill == pc \in {"leg1", "pickup", "leg2", "dropoff", "tail"}

\* C32: until the tail fill, on_duty_minutes is the clock time elapsed in the
\* current duty period: global_minute minus the end of the latest 10-hour
\* reset event, or minus 0 when there is none, after every drive chunk, break,
\* fuel stop, pickup, dropoff and reset.
C32_OnDutyIsElapsed ==
  BeforeTailFill =>
    state.on_duty_minutes = state.global_minute - LatestResetEnd(state.timeline)

\* The dropoff is in, behind a reset that was followed by driving, a break and
\* a fuel stop in the same duty period
C32_Witness ==
  /\ pc = "tail"
  /\ ResetIndices(state.timeline) # {}
  /\ \E i, j, k \in LatestReset(state.timeline) + 1..Len(state.timeline) :
       /\ state.timeline[i].status = DRIVING
       /\ IsBreakEvent(state.timeline[j])
       /\ state.timeline[k].label = "Fuel stop"

\* Minutes of the events of status s in a timeline
StatusMinutesOf(tl, s) ==
  LET RECURSIVE Sum(_)
      Sum(n) == IF n = 0 THEN 0
                ELSE Sum(n - 1) + (IF tl[n].status = s THEN Duration(tl[n]) ELSE 0)
  IN Sum(Len(tl))
\* The minutes of the DRIVING and ON_DUTY_NOT_DRIVING events of a timeline
WorkedMinutes(tl) == StatusMinutesOf(tl, DRIVING) + StatusMinutesOf(tl, ON_DUTY_NOT_DRIVING)
\* int(cycle_used_hours * 60) of the call in progress
CycleAtStart == (args.cycle_used_hours * 60) \div HoursScale
OnlyRestAppended ==
  \A i \in 1..Len(AppendedEvents) : AppendedEvents[i].status \in {OFF_DUTY, SLEEPER}

\* C33: in every state cycle_minutes is its initial value plus the minutes of
\* all DRIVING and ON_DUTY_NOT_DRIVING events appended so far; it never
\* decreases, and OFF_DUTY and SLEEPER events do not change it.
C33_CycleIsWorkedTime ==
  /\ [](pc # "idle" => state.cycle_minutes = CycleAtStart + WorkedMinutes(state.timeline))
  /\ [][pc \notin {"idle", "done"} =>
          /\ state'.cycle_minutes >= state.cycle_minutes
          /\ OnlyRestAppended => state'.cycle_minutes = state.cycle_minutes
     ]_vars

\* A plan that began with cycle hours used and holds driving, a fuel stop, a
\* break, a reset, the dropoff and the tail fill
C33_Witness ==
  /\ Returned
  /\ CycleAtStart > 0
  /\ \E i, j, k, l \in 1..Len(state.timeline) :
       /\ state.timeline[i].status = DRIVING
       /\ state.timeline[j].label = "Fuel stop"
       /\ IsBreakEvent(state.timeline[k])
       /\ IsResetEvent(state.timeline[l])
  /\ state.timeline[Len(state.timeline)].label = "Off Duty"

\* Event evt is the timeline block of a stop of one of the kinds
IsStopOfKind(evt, stops, kinds) ==
  \E k \in 1..Len(stops) : stops[k].kind \in kinds /\ stops[k].global_minute = evt.start
\* DRIVING minutes among events 1..n since the latest of them that is a
\* SLEEPER event or the block of a stop of one of the kinds
RECURSIVE DrivingSince(_, _, _, _)
DrivingSince(tl, stops, kinds, n) ==
  IF n = 0 \/ tl[n].status = SLEEPER \/ IsStopOfKind(tl[n], stops, kinds) THEN 0
  ELSE DrivingSince(tl, stops, kinds, n - 1)
         + (IF tl[n].status = DRIVING THEN Duration(tl[n]) ELSE 0)

\* C34: in every state of a plan computation
\* 0 <= cumulative_drive <= drive_minutes <= on_duty_minutes,
\* cumulative_drive <= 480 and drive_minutes <= 660; drive_minutes is the
\* DRIVING minutes since the latest SLEEPER event and cumulative_drive the
\* DRIVING minutes since the latest BREAK_30 or SLEEPER event.
C34_CounterOrder ==
  /\ 0 <= state.cumulative_drive
  /\ state.cumulative_drive <= state.drive_minutes
  /\ state.drive_minutes <= state.on_duty_minutes
  /\ state.cumulative_drive <= 480
  /\ state.drive_minutes <= 660
  /\ state.drive_minutes = DrivingSince(state.timeline, state.stops, {}, Len(state.timeline))
  /\ state.cumulative_drive =
       DrivingSince(state.timeline, state.stops, {BREAK_30}, Len(state.timeline))

\* In a leg, behind a reset and a later break: the three counters differ and
\* none is 0
C34_Witness ==
  /\ InLeg
  /\ 0 < state.cumulative_drive
  /\ state.cumulative_drive < state.drive_minutes
  /\ state.drive_minutes < state.on_duty_minutes
  /\ ResetIndices(state.timeline) # {}
  /\ \E j \in LatestReset(state.timeline) + 1..Len(state.timeline) :
       IsStopOfKind(state.timeline[j], state.stops, {BREAK_30})

\* C35: once cycle_minutes has reached 4200, no DRIVING event, no BREAK_30 and
\* no FUEL stop is appended any more in the same plan: only the PICKUP, the
\* DROPOFF, a reset in front of one of them and the tail fill can follow.
C35_NothingAfterCycleOut ==
  [][state.cycle_minutes >= 4200 /\ pc \notin {"idle", "done"} =>
       /\ \A i \in 1..Len(AppendedEvents) : AppendedEvents[i].status # DRIVING
       /\ \A k \in 1..Len(AppendedStops) :
            AppendedStops[k].kind \in {PICKUP, DROPOFF, OFF_DUTY_10}
       /\ ResetAppended =>
            /\ AtOnDutyStop
            /\ Len(AppendedStops) = 2
            /\ AppendedStops[2].kind = OnDutyStopKind
       /\ Len(AppendedEvents) > Len(AppendedStops) =>
            /\ pc = "tail"
            /\ AppendedStops = <<>>
            /\ Len(AppendedEvents) = 1
            /\ AppendedEvents[1].status = OFF_DUTY
  ]_vars

\* A returned plan whose cycle ran out on the way to the pickup: the pickup,
\* the dropoff and the tail fill are all that follows, although leg 2 had
\* minutes to drive
C35_Witness ==
  /\ Returned
  /\ CycleAtStart < CYCLE_LIMIT
  /\ Leg2Minutes(args) > 0
  /\ Len(state.timeline) >= 4
  /\ LET n == Len(state.timeline)
     IN /\ state.timeline[n - 3].status = DRIVING
        /\ CycleAtStart + WorkedMinutes(SubSeq(state.timeline, 1, n - 3)) >= CYCLE_LIMIT
        /\ state.timeline[n - 2].label = args.pickup_label
        /\ state.timeline[n - 1].label = args.dropoff_label
        /\ state.timeline[n].status = OFF_DUTY

====
